---------------------------- MODULE Spec2Model ----------------------------
(***************************************************************************)
(* String analyzer service: StringsService (create / findByValue /         *)
(* findAll / filterByNaturalLanguage / delete) over the analyzed_strings   *)
(* table, with the pure helpers computeProperties and                      *)
(* parseNaturalLanguageQuery.                                              *)
(*                                                                         *)
(* A string is a TLA+ string read as a sequence of UTF-16 code units; a    *)
(* character is a string of length 1.                                      *)
(***************************************************************************)
EXTENDS Integers, Sequences, FiniteSets, TLC

VARIABLES store, now, pc, entity, response

vars == <<store, now, pc, entity, response>>

(***************************************************************************)
(* Bounds of the model.                                                    *)
(***************************************************************************)
\* The database clock takes the values 0..MaxClock.
MaxClock == 1

\* The request slots that run handlers concurrently.
Procs == {1, 2}

\* The values clients send to create / findByValue / delete.
Values == {"aba", "A a", "a%"}

(***************************************************************************)
(* Strings.                                                                *)
(***************************************************************************)
CharAt(s, i) == SubSeq(s, i, i)

UpperCase == "ABCDEFGHIJKLMNOPQRSTUVWXYZ"
LowerCase == "abcdefghijklmnopqrstuvwxyz"

\* String.prototype.toLowerCase on one code unit.
ToLowerChar(c) ==
    IF \E i \in 1..Len(UpperCase) : CharAt(UpperCase, i) = c
    THEN CharAt(LowerCase, CHOOSE i \in 1..Len(UpperCase) : CharAt(UpperCase, i) = c)
    ELSE c

RECURSIVE toLowerCase(_)
toLowerCase(s) ==
    IF s = "" THEN "" ELSE ToLowerChar(Head(s)) \o toLowerCase(Tail(s))

\* The regular expression class \s, on the characters the model uses.
IsSpace(c) == c \in {" ", "\t", "\n", "\r"}

\* value.replace(/\s/g, '')
RECURSIVE RemoveWhitespace(_)
RemoveWhitespace(s) ==
    IF s = "" THEN ""
    ELSE IF IsSpace(Head(s)) THEN RemoveWhitespace(Tail(s))
    ELSE Head(s) \o RemoveWhitespace(Tail(s))

\* s.split('').reverse().join('')
RECURSIVE Reverse(_)
Reverse(s) == IF s = "" THEN "" ELSE Reverse(Tail(s)) \o Head(s)

\* String.prototype.trim
RECURSIVE TrimStart(_)
TrimStart(s) ==
    IF s # "" /\ IsSpace(Head(s)) THEN TrimStart(Tail(s)) ELSE s

Trim(s) == Reverse(TrimStart(Reverse(TrimStart(s))))

\* s.split(/\s+/): the pieces between maximal runs of whitespace; the empty
\* string splits into one empty piece.
RECURSIVE SplitWhitespace(_, _)
SplitWhitespace(s, cur) ==
    IF s = "" THEN <<cur>>
    ELSE IF IsSpace(Head(s))
         THEN <<cur>> \o SplitWhitespace(TrimStart(s), "")
         ELSE SplitWhitespace(Tail(s), cur \o Head(s))

\* haystack.includes(needle)
Includes(s, sub) ==
    \E i \in 1..(Len(s) - Len(sub) + 1) : SubSeq(s, i, i + Len(sub) - 1) = sub

\* UTF-16 surrogates: the model writes a high surrogate code unit as "^" and
\* a low surrogate code unit as "~", so "^~" is one character outside the
\* basic plane, held in two code units.
IsHighSurrogate(c) == c = "^"
IsLowSurrogate(c) == c = "~"

\* The string iterator (for..of, new Set(string)): one element per code
\* point, a high surrogate followed by a low surrogate being one element.
RECURSIVE CodePoints(_)
CodePoints(s) ==
    IF s = "" THEN << >>
    ELSE IF Len(s) >= 2 /\ IsHighSurrogate(CharAt(s, 1)) /\ IsLowSurrogate(CharAt(s, 2))
         THEN <<SubSeq(s, 1, 2)>> \o CodePoints(SubSeq(s, 3, Len(s)))
         ELSE <<Head(s)>> \o CodePoints(Tail(s))

SeqRange(q) == {q[i] : i \in 1..Len(q)}

(***************************************************************************)
(* computeProperties.                                                      *)
(***************************************************************************)
\* createHash('sha256').update(value).digest('hex'): the digest is kept
\* symbolic, as a tagged copy of its input, so it is a function of the value
\* and distinct values have distinct digests (no collision is modelled).
Sha256(value) == "sha256:" \o value

\* The palindrome check without the lower-casing.
isPalindromeCaseSensitive(value) ==
    LET normalizedValue == RemoveWhitespace(value)
        reversedValue == Reverse(normalizedValue)
    IN normalizedValue = reversedValue

isPalindrome(value) ==
    LET normalizedValue == RemoveWhitespace(toLowerCase(value))
        reversedValue == Reverse(normalizedValue)
    IN normalizedValue = reversedValue

wordCount(value) ==
    Len(SelectSeq(SplitWhitespace(Trim(value), ""), LAMBDA word : Len(word) > 0))

characterFrequencyMap(value) ==
    LET chars == CodePoints(value)
    IN [c \in SeqRange(chars) |-> Cardinality({i \in 1..Len(chars) : chars[i] = c})]

computeProperties(value) ==
    [length |-> Len(value),
     is_palindrome |-> isPalindrome(value),
     unique_characters |-> Cardinality(SeqRange(CodePoints(value))),
     word_count |-> wordCount(value),
     sha256_hash |-> Sha256(value),
     character_frequency_map |-> characterFrequencyMap(value)]

(***************************************************************************)
(* The analyzed_strings table and the repository calls on it.              *)
(***************************************************************************)
\* created_at of an entity object that was never read back from the table.
NoDate == -1

\* One row of analyzed_strings: id (primary key), value (unique),
\* properties (jsonb), created_at (set by the database on insert).
Row(id, value, properties, created_at) ==
    [id |-> id, value |-> value, properties |-> properties, created_at |-> created_at]

\* A findOne that looks the value up in the id column.
findOneById(st, value) == {r \in st : r.id = value}

\* stringRepository.findOne({ where: { value } }): the rows with that value
\* (none, or one by the unique constraint).
findOne(st, value) == {r \in st : r.value = value}

\* An entity whose id is the value itself, not its hash.
NewEntityUnhashed(value, properties) == Row(value, value, properties, NoDate)

\* stringRepository.create({ id, value, properties }) in StringsService.create.
NewEntity(value, properties) ==
    Row(properties.sha256_hash, value, properties, NoDate)

\* A save that stores the value case-folded.
SaveLowerCased(st, ent, t) ==
    IF \E r \in st : r.id = ent.id
    THEN st
    ELSE st \cup {Row(ent.id, toLowerCase(ent.value), ent.properties, t)}

\* A save whose update path stamps the row with the time of the update.
SaveTouching(st, ent, t) ==
    IF \E r \in st : r.id = ent.id
    THEN {IF r.id = ent.id
          THEN Row(r.id, ent.value, ent.properties, t)
          ELSE r : r \in st}
    ELSE st \cup {Row(ent.id, ent.value, ent.properties, t)}

\* stringRepository.save(entity): by primary key, inserts the row when no row
\* has the entity's id (created_at set to the database time) and otherwise
\* updates that row's given columns, leaving created_at as it is.
Save(st, ent, t) ==
    IF \E r \in st : r.id = ent.id
    THEN {IF r.id = ent.id
          THEN Row(r.id, ent.value, ent.properties, r.created_at)
          ELSE r : r \in st}
    ELSE st \cup {Row(ent.id, ent.value, ent.properties, t)}

\* The entity save() resolves to: the inserted row, or on the update path
\* the entity as it was given.
Saved(st, ent, t) ==
    IF \E r \in st : r.id = ent.id THEN ent
    ELSE Row(ent.id, ent.value, ent.properties, t)

\* A delete without its where clause.
DeleteEveryRow(st, value) == {}

\* stringRepository.delete({ value }): the table afterwards, and affected.
DeleteRows(st, value) == {r \in st : r.value # value}

Affected(st, value) == Cardinality({r \in st : r.value = value})

(***************************************************************************)
(* FilterStringsDto and findAll's query.                                   *)
(***************************************************************************)
\* A FilterStringsDto is the record of the fields that are set; a field
\* that is undefined is not in its domain.
EmptyFilter == [k \in {} |-> TRUE]

Has(filters, k) == k \in DOMAIN filters

\* filters.k = v
Put(filters, k, v) ==
    [x \in (DOMAIN filters) \cup {k} |-> IF x = k THEN v ELSE filters[x]]

\* A key count that overlooks word_count.
KeyCountWithoutWordCount(filters) == Cardinality((DOMAIN filters) \ {"word_count"})

\* Object.keys(filters).length
KeyCount(filters) == Cardinality(DOMAIN filters)

\* PostgreSQL's  s LIKE pattern : % is any run of characters, _ any one
\* character, and a backslash makes the next pattern character literal.
RECURSIVE Like(_, _)
Like(s, pattern) ==
    IF pattern = "" THEN s = ""
    ELSE LET h == Head(pattern)
             rest == Tail(pattern)
         IN IF h = "%" THEN Like(s, rest) \/ (s # "" /\ Like(Tail(s), pattern))
            ELSE IF h = "_" THEN s # "" /\ Like(Tail(s), rest)
            ELSE IF h = "\\"
                 THEN rest # "" /\ s # "" /\ Head(s) = Head(rest)
                      /\ Like(Tail(s), Tail(rest))
            ELSE s # "" /\ Head(s) = h /\ Like(Tail(s), rest)

\* A WHERE clause that tests is_palindrome for truthiness, so that the value
\* false adds no condition.
WhereTruthy(r, filters) ==
    /\ (Has(filters, "is_palindrome") /\ filters.is_palindrome)
          => (r.properties.is_palindrome = filters.is_palindrome)
    /\ Has(filters, "min_length") => (r.properties.length >= filters.min_length)
    /\ Has(filters, "max_length") => (r.properties.length <= filters.max_length)
    /\ Has(filters, "word_count") => (r.properties.word_count = filters.word_count)
    /\ (Has(filters, "contains_character") /\ filters.contains_character # "")
          => Like(r.value, "%" \o filters.contains_character \o "%")

\* The WHERE clause findAll builds: one andWhere per filter field present.
Where(r, filters) ==
    /\ Has(filters, "is_palindrome")
          => (r.properties.is_palindrome = filters.is_palindrome)
    /\ Has(filters, "min_length") => (r.properties.length >= filters.min_length)
    /\ Has(filters, "max_length") => (r.properties.length <= filters.max_length)
    /\ Has(filters, "word_count") => (r.properties.word_count = filters.word_count)
    /\ (Has(filters, "contains_character") /\ filters.contains_character # "")
          => Like(r.value, "%" \o filters.contains_character \o "%")

\* ORDER BY created_at ASC.
OrderedAsc(rows) ==
    \A i, j \in 1..Len(rows) : i < j => rows[i].created_at <= rows[j].created_at

\* ORDER BY created_at DESC of a sequence of rows.
OrderedDesc(rows) ==
    \A i, j \in 1..Len(rows) : i < j => rows[i].created_at >= rows[j].created_at

\* The sequences that list every row of the set S once.
Listings(S) ==
    {q \in [1..Cardinality(S) -> S] : \A i, j \in 1..Cardinality(S) : i # j => q[i] # q[j]}

\* query.orderBy('string.created_at', 'DESC').getMany(): the selected rows
\* in an order the ORDER BY allows (rows of equal created_at in any order).
GetMany(st, filters) ==
    {q \in Listings({r \in st : Where(r, filters)}) : OrderedDesc(q)}

(***************************************************************************)
(* parseNaturalLanguageQuery.                                              *)
(***************************************************************************)
IsDigit(c) == c \in {"0", "1", "2", "3", "4", "5", "6", "7", "8", "9"}

\* The regular expression class [a-z].
IsLowerLetter(c) == \E i \in 1..Len(LowerCase) : CharAt(LowerCase, i) = c

DigitValue(c) == CHOOSE d \in 0..9 : CharAt("0123456789", d + 1) = c

\* parseInt(digits, 10) of a non-empty run of decimal digits.
RECURSIVE parseInt(_)
parseInt(digits) ==
    IF Len(digits) = 1 THEN DigitValue(digits)
    ELSE 10 * parseInt(SubSeq(digits, 1, Len(digits) - 1))
         + DigitValue(CharAt(digits, Len(digits)))

\* The character classes of the regular expressions: \d and [a-z].
InClass(class, c) == IF class = "\\d" THEN IsDigit(c) ELSE IsLowerLetter(c)

\* The literal lit stands in s at position i.
LitAt(s, i, lit) ==
    i + Len(lit) - 1 <= Len(s) /\ SubSeq(s, i, i + Len(lit) - 1) = lit

\* The longest run of digits of s that starts at position i: (\d+).
RECURSIVE DigitRun(_, _)
DigitRun(s, i) ==
    IF i <= Len(s) /\ IsDigit(CharAt(s, i))
    THEN CharAt(s, i) \o DigitRun(s, i + 1)
    ELSE ""

\* The positions where one of the literal prefixes stands, followed by a
\* character of the class: where the regular expression  prefix(class)
\* matches, the prefixes being the expansions of its optional groups.
MatchStarts(s, prefixes, class) ==
    {i \in 1..Len(s) :
        \E n \in 1..Len(prefixes) :
            /\ LitAt(s, i, prefixes[n])
            /\ i + Len(prefixes[n]) <= Len(s)
            /\ InClass(class, CharAt(s, i + Len(prefixes[n])))}

\* String.prototype.match without the g flag: the leftmost match, and at it
\* the first expansion in the order the regular expression tries them; the
\* result is the position of the capture group, 0 when there is no match.
CaptureStart(s, prefixes, class) ==
    LET starts == MatchStarts(s, prefixes, class)
    IN IF starts = {} THEN 0
       ELSE LET i == CHOOSE x \in starts : \A y \in starts : x <= y
                n == CHOOSE m \in 1..Len(prefixes) :
                        /\ LitAt(s, i, prefixes[m])
                        /\ i + Len(prefixes[m]) <= Len(s)
                        /\ InClass(class, CharAt(s, i + Len(prefixes[m])))
                        /\ \A k \in 1..(m - 1) :
                              ~ (/\ LitAt(s, i, prefixes[k])
                                 /\ i + Len(prefixes[k]) <= Len(s)
                                 /\ InClass(class, CharAt(s, i + Len(prefixes[k]))))
            IN i + Len(prefixes[n])

\* /longer than (\d+)/
LongerThanPrefixes == <<"longer than ">>

\* /shorter than (\d+)/
ShorterThanPrefixes == <<"shorter than ">>

\* /length (?:of )?(\d+)/
ExactLengthPrefixes == <<"length of ", "length ">>

\* /contain(?:ing|s)? (?:the )?(?:letter |character )?([a-z])/
ContainsPrefixes ==
    <<"containing the letter ", "containing the character ", "containing the ",
      "containing letter ", "containing character ", "containing ",
      "contains the letter ", "contains the character ", "contains the ",
      "contains letter ", "contains character ", "contains ",
      "contain the letter ", "contain the character ", "contain the ",
      "contain letter ", "contain character ", "contain ">>

\* Detect palindrome queries.
PalindromeRule(filters, lowerQuery) ==
    IF Includes(lowerQuery, "palindrom")
       \/ Includes(lowerQuery, "reads same forwards and backwards")
    THEN Put(filters, "is_palindrome", TRUE)
    ELSE filters

\* Detect word count.
WordCountRule(filters, lowerQuery) ==
    IF Includes(lowerQuery, "single word") \/ Includes(lowerQuery, "one word")
    THEN Put(filters, "word_count", 1)
    ELSE IF Includes(lowerQuery, "two word") \/ Includes(lowerQuery, "2 word")
    THEN Put(filters, "word_count", 2)
    ELSE IF Includes(lowerQuery, "three word") \/ Includes(lowerQuery, "3 word")
    THEN Put(filters, "word_count", 3)
    ELSE filters

\* "longer than X" read as "at least X".
LongerThanInclusive(filters, lowerQuery) ==
    LET at == CaptureStart(lowerQuery, LongerThanPrefixes, "\\d")
    IN IF at # 0
       THEN Put(filters, "min_length", parseInt(DigitRun(lowerQuery, at)))
       ELSE filters

\* Detect length constraints - "longer than X".
LongerThanRule(filters, lowerQuery) ==
    LET at == CaptureStart(lowerQuery, LongerThanPrefixes, "\\d")
    IN IF at # 0
       THEN Put(filters, "min_length", parseInt(DigitRun(lowerQuery, at)) + 1)
       ELSE filters

\* Detect length constraints - "shorter than X".
ShorterThanRule(filters, lowerQuery) ==
    LET at == CaptureStart(lowerQuery, ShorterThanPrefixes, "\\d")
    IN IF at # 0
       THEN Put(filters, "max_length", parseInt(DigitRun(lowerQuery, at)) - 1)
       ELSE filters

\* Detect exact length.
ExactLengthRule(filters, lowerQuery) ==
    LET at == CaptureStart(lowerQuery, ExactLengthPrefixes, "\\d")
    IN IF at # 0
       THEN LET len == parseInt(DigitRun(lowerQuery, at))
            IN Put(Put(filters, "min_length", len), "max_length", len)
       ELSE filters

\* Detect character containment.
ContainsLetterRule(filters, lowerQuery) ==
    LET at == CaptureStart(lowerQuery, ContainsPrefixes, "[a-z]")
    IN IF at # 0
       THEN Put(filters, "contains_character", CharAt(lowerQuery, at))
       ELSE filters

\* Special case: "first vowel" means 'a'.
FirstVowelRule(filters, lowerQuery) ==
    IF Includes(lowerQuery, "first vowel")
    THEN Put(filters, "contains_character", "a")
    ELSE filters

vowels == <<"a", "e", "i", "o", "u">>

\* The vowel rule that leaves a letter of the containment rule in place.
VowelRuleKeepsLetter(filters, lowerQuery) ==
    IF Includes(lowerQuery, "vowel")
       /\ ~ Has(filters, "contains_character")
       /\ \E n \in 1..Len(vowels) : Includes(lowerQuery, vowels[n])
    THEN LET n == CHOOSE m \in 1..Len(vowels) :
                     /\ Includes(lowerQuery, vowels[m])
                     /\ \A k \in 1..(m - 1) : ~ Includes(lowerQuery, vowels[k])
         IN Put(filters, "contains_character", vowels[n])
    ELSE filters

\* Special case: detect specific vowels mentioned: the first vowel of the
\* list that the query text includes, the loop breaking there.
VowelRule(filters, lowerQuery) ==
    IF Includes(lowerQuery, "vowel")
       /\ \E n \in 1..Len(vowels) : Includes(lowerQuery, vowels[n])
    THEN LET n == CHOOSE m \in 1..Len(vowels) :
                     /\ Includes(lowerQuery, vowels[m])
                     /\ \A k \in 1..(m - 1) : ~ Includes(lowerQuery, vowels[k])
         IN Put(filters, "contains_character", vowels[n])
    ELSE filters

parseNaturalLanguageQuery(query) ==
    LET lowerQuery == toLowerCase(query)
        f1 == PalindromeRule(EmptyFilter, lowerQuery)
        f2 == WordCountRule(f1, lowerQuery)
        f3 == LongerThanRule(f2, lowerQuery)
        f4 == ShorterThanRule(f3, lowerQuery)
        f5 == ExactLengthRule(f4, lowerQuery)
        f6 == ContainsLetterRule(f5, lowerQuery)
        f7 == FirstVowelRule(f6, lowerQuery)
    IN VowelRule(f7, lowerQuery)

(***************************************************************************)
(* The service's state and its handlers.                                   *)
(*   store      the rows of analyzed_strings                               *)
(*   now        the database clock                                         *)
(*   pc[p]      where request slot p stands in create: "idle", or "save"   *)
(*              between its findOne and its save                           *)
(*   entity[p]  the entity p's create has built and will save              *)
(*   response   what the latest completed call returned or threw           *)
(***************************************************************************)
NoEntity == Row("", "", EmptyFilter, NoDate)

\* What a call resolves to or throws: status is "ok" or the exception's
\* class, data the rows returned, count their number, filters the
\* FilterStringsDto returned with them.
Response(op, arg, status, data, filters) ==
    [op |-> op, arg |-> arg, status |-> status, data |-> data,
     count |-> Len(data), filters |-> filters]

NoResponse == Response("none", "", "none", << >>, EmptyFilter)

\* The filters clients send to findAll while creates run concurrently.
ListFilters ==
    {EmptyFilter,
     [is_palindrome |-> FALSE],
     [is_palindrome |-> TRUE, word_count |-> 1],
     [min_length |-> 3, max_length |-> 2]}

\* The query texts clients send to filterByNaturalLanguage while creates run
\* concurrently.
QueryTexts ==
    {"xyz", "all single word palindromic strings", "strings with the first vowel"}

\* The filters of the sequential runs: every combination of the four
\* property fields over these values, and every single-character
\* contains_character filter over these characters.
PalindromeChoices == {TRUE, FALSE}
LengthChoices == {2, 3}
WordCountChoices == {1, 2}
CharacterChoices == {"a", "b", "A", " ", "1", "%", "_", "\\"}

\* The filter with the fields of f and of g (of f where both set one).
Merge(f, g) ==
    [k \in (DOMAIN f) \cup (DOMAIN g) |-> IF k \in DOMAIN f THEN f[k] ELSE g[k]]

\* The filters that leave the field k out or set it to one of the choices.
Optional(k, choices) == {EmptyFilter} \cup {Put(EmptyFilter, k, v) : v \in choices}

PropertyFilters ==
    {Merge(Merge(a, b), Merge(c, d)) :
        a \in Optional("is_palindrome", PalindromeChoices),
        b \in Optional("min_length", LengthChoices),
        c \in Optional("max_length", LengthChoices),
        d \in Optional("word_count", WordCountChoices)}

CharacterFilters == {[contains_character |-> c] : c \in CharacterChoices}

\* The query texts of the sequential runs: a head followed by a tail.
QueryHeads ==
    {"strings", "all single word palindromic strings", "two word strings",
     "palindromic strings that contain the letter z",
     "Strings CONTAINING the character Q", "strings containing numbers",
     "texts with 3 words", "xyz"}

QueryTails ==
    {"", " longer than 10 characters", " shorter than 5 characters",
     " shorter than 0", " with length of 3", " of length 12 longer than 2",
     " that are 5 characters long", " with the first vowel",
     " with the First Vowel a", " with vowels",
     " longer than 10 and shorter than 5"}

ComposedQueries == {head \o tail : head \in QueryHeads, tail \in QueryTails}

\* The query texts of the interpreter runs: the length phrases with every
\* number up to MaxNumber, alone and in pairs.
MaxNumber == 11

RECURSIVE NumStr(_)
NumStr(n) ==
    IF n < 10
    THEN CharAt("0123456789", n + 1)
    ELSE NumStr(n \div 10) \o CharAt("0123456789", (n % 10) + 1)

LengthPhrases == {"longer than ", "shorter than ", "length ", "length of "}

NumberQueries ==
    {"strings " \o phrase \o NumStr(n) \o tail :
        phrase \in LengthPhrases, n \in 0..MaxNumber, tail \in {"", " characters"}}
    \cup {"strings longer than " \o NumStr(n) \o " and shorter than " \o NumStr(m) :
            n \in 0..MaxNumber, m \in 0..MaxNumber}
    \cup {"strings shorter than " \o NumStr(n) \o " with a length of " \o NumStr(n + 1) :
            n \in 0..MaxNumber}
    \cup {"strings that are " \o NumStr(n) \o " characters long" : n \in 0..MaxNumber}

ParseQueries == ComposedQueries \cup NumberQueries

\* The values of the analysis runs: every string of up to MaxLength code
\* units over the alphabet (letters in both cases, a space, a tab, and the
\* two surrogate code units), and the named examples.
MaxLength == 3

Alphabet == {"a", "b", "A", " ", "\t", "^", "~"}

RECURSIVE StringsUpTo(_)
StringsUpTo(n) ==
    IF n = 0
    THEN {""}
    ELSE {""} \cup {c \o rest : c \in Alphabet, rest \in StringsUpTo(n - 1)}

ExampleValues ==
    {"racecar", "A man a plan a canal Panama", "hello", "hello world", "     ",
     "Was it a car", "a^~b^~a"}

AnalyzedValues == StringsUpTo(MaxLength) \cup ExampleValues

\* computeProperties and parseNaturalLanguageQuery are pure: their results on
\* the inputs of the model are computed once and looked up by the handlers.
Properties == [value \in Values \cup AnalyzedValues |-> computeProperties(value)]

ParsedFilters ==
    [queryText \in QueryTexts \cup ParseQueries |->
        parseNaturalLanguageQuery(queryText)]

Init ==
    /\ store = {}
    /\ now = 0
    /\ pc = [p \in Procs |-> "idle"]
    /\ entity = [p \in Procs |-> NoEntity]
    /\ response = NoResponse

\* StringsService.create up to its first await: findOne, the conflict check,
\* computeProperties and repository.create.
CreateFindOne(p, value) ==
    /\ pc[p] = "idle"
    /\ IF findOne(store, value) # {}
       THEN /\ response' = Response("create", value, "ConflictException", << >>, EmptyFilter)
            /\ UNCHANGED <<pc, entity>>
       ELSE /\ pc' = [pc EXCEPT ![p] = "save"]
            /\ entity' = [entity EXCEPT ![p] = NewEntity(value, Properties[value])]
            /\ UNCHANGED response
    /\ UNCHANGED <<store, now>>

\* StringsService.create from its save to its return.
CreateSave(p) ==
    /\ pc[p] = "save"
    /\ store' = Save(store, entity[p], now)
    /\ response' = Response("create", entity[p].value, "ok",
                            <<Saved(store, entity[p], now)>>, EmptyFilter)
    /\ pc' = [pc EXCEPT ![p] = "idle"]
    /\ entity' = [entity EXCEPT ![p] = NoEntity]
    /\ UNCHANGED now

\* StringsService.findByValue on the table st.
findByValue(st, value) ==
    IF findOne(st, value) = {}
    THEN Response("findByValue", value, "NotFoundException", << >>, EmptyFilter)
    ELSE Response("findByValue", value, "ok",
                  <<CHOOSE r \in findOne(st, value) : TRUE>>, EmptyFilter)

FindByValue(value) ==
    /\ response' = findByValue(store, value)
    /\ UNCHANGED <<store, now, pc, entity>>

\* StringsService.findAll: data, count (the length of data) and
\* filters_applied.
FindAll(filters) ==
    /\ \E data \in GetMany(store, filters) :
          response' = Response("findAll", "", "ok", data, filters)
    /\ UNCHANGED <<store, now, pc, entity>>

\* StringsService.filterByNaturalLanguage.
FilterByNaturalLanguage(queryText) ==
    /\ LET filters == ParsedFilters[queryText]
       IN IF KeyCount(filters) = 0
          THEN response' = Response("filterByNaturalLanguage", queryText,
                                    "BadRequestException", << >>, EmptyFilter)
          ELSE \E data \in GetMany(store, filters) :
                  response' = Response("filterByNaturalLanguage", queryText,
                                       "ok", data, filters)
    /\ UNCHANGED <<store, now, pc, entity>>

\* StringsService.delete.
Delete(value) ==
    /\ store' = DeleteRows(store, value)
    /\ response' =
          IF Affected(store, value) = 0
          THEN Response("delete", value, "NotFoundException", << >>, EmptyFilter)
          ELSE Response("delete", value, "ok", << >>, EmptyFilter)
    /\ UNCHANGED <<now, pc, entity>>

\* The database clock advances.
Tick ==
    /\ now < MaxClock
    /\ now' = now + 1
    /\ UNCHANGED <<store, pc, entity, response>>

Next ==
    \/ \E p \in Procs, value \in Values : CreateFindOne(p, value)
    \/ \E p \in Procs : CreateSave(p)
    \/ \E value \in Values : FindByValue(value)
    \/ \E filters \in ListFilters : FindAll(filters)
    \/ \E queryText \in QueryTexts : FilterByNaturalLanguage(queryText)
    \/ \E value \in Values : Delete(value)
    \/ Tick

Spec == Init /\ [][Next]_vars

(***************************************************************************)
(* Sequential runs: one request at a time, over the larger input sets.     *)
(***************************************************************************)
\* create, delete and the clock build the table; findAll reads it.
NextList ==
    \/ \E value \in Values : CreateFindOne(1, value)
    \/ CreateSave(1)
    \/ \E value \in Values : Delete(value)
    \/ \E filters \in PropertyFilters \cup CharacterFilters : FindAll(filters)
    \/ Tick

SpecList == Init /\ [][NextList]_vars

\* create, delete and the clock build the table; filterByNaturalLanguage
\* reads it.
NextQuery ==
    \/ \E value \in Values : CreateFindOne(1, value)
    \/ CreateSave(1)
    \/ \E value \in Values : Delete(value)
    \/ \E queryText \in ComposedQueries : FilterByNaturalLanguage(queryText)
    \/ Tick

SpecQuery == Init /\ [][NextQuery]_vars

\* The analysis on its own: one create call on the empty table, for each of
\* the analyzed values, taken from the point where it has computed the
\* properties and is about to save them.
InitAnalyze ==
    \E value \in AnalyzedValues :
        /\ store = {}
        /\ now = 0
        /\ pc = [p \in Procs |-> IF p = 1 THEN "save" ELSE "idle"]
        /\ entity = [p \in Procs |->
                        IF p = 1 THEN NewEntity(value, Properties[value]) ELSE NoEntity]
        /\ response = NoResponse

NextAnalyze == CreateSave(1)

SpecAnalyze == InitAnalyze /\ [][NextAnalyze]_vars

\* The interpreter on its own: filterByNaturalLanguage on the empty table.
NextParse == \E queryText \in ParseQueries : FilterByNaturalLanguage(queryText)

SpecParse == Init /\ [][NextParse]_vars

(***************************************************************************)
(* Properties of the service.                                              *)
(***************************************************************************)
Stored(st, value) == \E r \in st : r.value = value

\* C1: create on a value that is stored throws ConflictException and leaves
\* the table as it was: such a call never goes on to its save, and the
\* response it produces is the conflict.
C1_DuplicateCreateRejected ==
    [][\A value \in Values :
          Stored(store, value) =>
             /\ \A p \in Procs :
                   pc[p] = "idle" => ~ (pc'[p] = "save" /\ entity'[p].value = value)
             /\ (response' # response /\ response'.op = "create"
                 /\ response'.arg = value /\ pc' = pc)
                   => (response'.status = "ConflictException" /\ store' = store)]_vars

C1_Witness ==
    /\ response.op = "create"
    /\ response.status = "ConflictException"
    /\ Stored(store, response.arg)

\* C2: of two overlapping creates of the same value, the one whose save
\* comes second, when the value has been stored by the other, throws
\* ConflictException, and one row holds the value afterwards.
C2_SecondCreateConflicts ==
    [][\A p \in Procs :
          (pc[p] = "save" /\ pc'[p] = "idle" /\ Stored(store, entity[p].value))
             => /\ response'.op = "create"
                /\ response'.status = "ConflictException"
                /\ Cardinality(findOne(store', entity[p].value)) = 1]_vars

\* C3: every stored row's id is its properties.sha256_hash, the hash of its
\* value, and no two stored rows have the same value.
C3_IdIsHashAndValueUnique ==
    \A r \in store :
       /\ r.id = r.properties.sha256_hash
       /\ r.properties.sha256_hash = Sha256(r.value)
       /\ \A r2 \in store : r2.value = r.value => r2 = r

C3_Witness ==
    /\ Cardinality(store) >= 2
    /\ \E p \in Procs : pc[p] = "save" /\ Stored(store, entity[p].value)

\* C4: findByValue and delete on a value that is not stored throw
\* NotFoundException and leave the table unchanged; delete on a stored value
\* removes exactly the row of that value, leaves the other rows as they
\* were, and findByValue on the table afterwards throws NotFoundException.
C4_NotFoundAndRemove ==
    [][/\ (response' # response /\ response'.op = "findByValue")
            => /\ store' = store
               /\ ~ Stored(store, response'.arg)
                     => response'.status = "NotFoundException"
       /\ (response'.op = "delete" /\ (response' # response \/ store' # store))
            => IF ~ Stored(store, response'.arg)
               THEN response'.status = "NotFoundException" /\ store' = store
               ELSE /\ response'.status = "ok"
                    /\ store' \subseteq store
                    /\ store \ store' = {r \in store : r.value = response'.arg}
                    /\ Cardinality(store \ store') = 1
                    /\ findByValue(store', response'.arg).status = "NotFoundException"]_vars

C4_Witness ==
    /\ response.op = "delete"
    /\ response.status = "ok"
    /\ store # {}

\* Some rule of parseNaturalLanguageQuery applies to the lower-cased query.
AnyRuleFires(lowerQuery) ==
    \/ Includes(lowerQuery, "palindrom")
    \/ Includes(lowerQuery, "reads same forwards and backwards")
    \/ \E phrase \in {"single word", "one word", "two word", "2 word",
                      "three word", "3 word"} : Includes(lowerQuery, phrase)
    \/ CaptureStart(lowerQuery, LongerThanPrefixes, "\\d") # 0
    \/ CaptureStart(lowerQuery, ShorterThanPrefixes, "\\d") # 0
    \/ CaptureStart(lowerQuery, ExactLengthPrefixes, "\\d") # 0
    \/ CaptureStart(lowerQuery, ContainsPrefixes, "[a-z]") # 0
    \/ Includes(lowerQuery, "first vowel")
    \/ Includes(lowerQuery, "vowel")

RuleFires == [queryText \in ComposedQueries |-> AnyRuleFires(toLowerCase(queryText))]

\* C5: filterByNaturalLanguage throws BadRequestException exactly when the
\* parsed filters have no field, which is exactly when no rule fired; then
\* nothing is listed and the table is unchanged; otherwise it returns what
\* findAll returns for the parsed filters, with those filters.
C5_UnparsableQueryRejected ==
    [][(response' # response /\ response'.op = "filterByNaturalLanguage")
          => LET filters == ParsedFilters[response'.arg]
             IN /\ store' = store
                /\ response'.status \in {"ok", "BadRequestException"}
                /\ (response'.status = "BadRequestException") <=> (DOMAIN filters = {})
                /\ (DOMAIN filters = {}) <=> ~ RuleFires[response'.arg]
                /\ response'.status = "BadRequestException" => response'.data = << >>
                /\ response'.status = "ok"
                      => /\ response'.filters = filters
                         /\ response'.data \in GetMany(store, filters)
                         /\ response'.count = Len(response'.data)]_vars

C5_Witness ==
    /\ response.op = "filterByNaturalLanguage"
    /\ response.status = "BadRequestException"
    /\ store # {}

\* The matcher of the four property fields: every field present holds of
\* the row, a field absent asks nothing.
Matches(r, f) ==
    /\ Has(f, "is_palindrome") => r.properties.is_palindrome = f.is_palindrome
    /\ Has(f, "min_length") => f.min_length <= r.properties.length
    /\ Has(f, "max_length") => r.properties.length <= f.max_length
    /\ Has(f, "word_count") => r.properties.word_count = f.word_count

Restrict(f, keys) == [k \in keys |-> f[k]]

\* The rows findAll selects from the table st under the filter f.
Selected(st, f) == {r \in st : \E data \in GetMany(st, f) : r \in SeqRange(data)}

\* C6: findAll returns exactly the stored rows that satisfy every present
\* property field (is_palindrome false included), each once: all rows for
\* the empty filter, none (and no error) when min_length > max_length, for
\* two filters of disjoint fields the intersection of their results, and
\* count is the number of rows returned.
C6_ListIsConjunctiveMatch ==
    (response.op = "findAll" /\ ~ Has(response.filters, "contains_character"))
       => LET f == response.filters
              rows == SeqRange(response.data)
          IN /\ response.status = "ok"
             /\ rows = {r \in store : Matches(r, f)}
             /\ Len(response.data) = Cardinality(rows)
             /\ response.count = Cardinality(rows)
             /\ f = EmptyFilter => rows = store
             /\ (Has(f, "min_length") /\ Has(f, "max_length")
                 /\ f.min_length > f.max_length) => response.data = << >>
             /\ \A keys \in SUBSET (DOMAIN f) :
                   LET f1 == Restrict(f, keys)
                       f2 == Restrict(f, (DOMAIN f) \ keys)
                   IN /\ Merge(f1, f2) = f
                      /\ rows = Selected(store, f1) \cap Selected(store, f2)

C6_Witness ==
    /\ response.op = "findAll"
    /\ Has(response.filters, "is_palindrome")
    /\ response.filters.is_palindrome = FALSE
    /\ Has(response.filters, "word_count")
    /\ Len(response.data) = 1
    /\ Cardinality(store) = 3

\* C7: findAll with only contains_character = c returns a stored row if and
\* only if c occurs in the row's value.
C7_ContainsCharacterIsLiteral ==
    (response.op = "findAll" /\ DOMAIN response.filters = {"contains_character"})
       => \A r \in store :
             (r \in SeqRange(response.data))
                <=> Includes(r.value, response.filters.contains_character)

\* C8: the rows findAll and filterByNaturalLanguage return are in descending
\* order of created_at: a row with a later created_at precedes every row
\* with an earlier one.
C8_ListedNewestFirst ==
    (response.op \in {"findAll", "filterByNaturalLanguage"} /\ response.status = "ok")
       => \A i, j \in 1..Len(response.data) :
             response.data[i].created_at > response.data[j].created_at => i < j

C8_Witness ==
    /\ response.op = "findAll"
    /\ Len(response.data) >= 2
    /\ response.data[1].created_at > response.data[2].created_at
    /\ Cardinality(store) = 3

\* C9: when create(s) returns, findByValue(s) returns a row whose value is s
\* and whose properties are computeProperties(s), the properties create
\* returned; and it goes on doing so until a delete removes s.
C9_RetrieveAfterAnalyze ==
    [][/\ \A p \in Procs :
             (pc[p] = "save" /\ pc'[p] = "idle" /\ response'.status = "ok")
                => LET s == entity[p].value
                       got == findByValue(store', s)
                   IN /\ got.status = "ok"
                      /\ got.data[1].value = s
                      /\ got.data[1].properties = computeProperties(s)
                      /\ got.data[1].properties = response'.data[1].properties
       /\ \A s \in Values :
             (/\ findByValue(store, s).status = "ok"
              /\ ~ (response'.op = "delete" /\ response'.arg = s /\ store' # store))
                => LET got == findByValue(store', s)
                   IN /\ got.status = "ok"
                      /\ got.data[1].value = s
                      /\ got.data[1].properties = computeProperties(s)]_vars

C9_Witness ==
    /\ response.op = "findByValue"
    /\ response.status = "ok"
    /\ response.data[1].value = "A a"
    /\ response.data[1].properties = computeProperties("A a")

\* C10: a query whose lower-cased text contains "first vowel" is parsed with
\* contains_character = "a", and "strings with the first vowel" to exactly
\* that one field.
C10_FirstVowelMeansA ==
    (response.op = "filterByNaturalLanguage"
     /\ Includes(toLowerCase(response.arg), "first vowel"))
       => /\ response.status = "ok"
          /\ Has(response.filters, "contains_character")
          /\ response.filters.contains_character = "a"
          /\ response.arg = "strings with the first vowel"
                => response.filters = [contains_character |-> "a"]

\* The first of a, e, i, o, u that occurs in the text ("vowel" itself has an
\* e, so a text with that word always has one).
FirstVowelOf(text) ==
    IF Includes(text, "a") THEN "a"
    ELSE IF Includes(text, "e") THEN "e"
    ELSE IF Includes(text, "i") THEN "i"
    ELSE IF Includes(text, "o") THEN "o"
    ELSE "u"

\* C11: a query whose lower-cased text contains "vowel" but not "first vowel"
\* is parsed with contains_character = the first of a, e, i, o, u occurring
\* anywhere in that text, whatever letter the "contain ... letter X" phrase
\* of the query names.
C11_VowelOverridesLetter ==
    (response.op = "filterByNaturalLanguage"
     /\ Includes(toLowerCase(response.arg), "vowel")
     /\ ~ Includes(toLowerCase(response.arg), "first vowel"))
       => /\ response.status = "ok"
          /\ Has(response.filters, "contains_character")
          /\ response.filters.contains_character
                = FirstVowelOf(toLowerCase(response.arg))

\* A query that names the letter z and mentions vowels came back with "a".
C11_Witness ==
    /\ response.op = "filterByNaturalLanguage"
    /\ response.arg = "palindromic strings that contain the letter z with vowels"
    /\ response.status = "ok"
    /\ response.filters.contains_character = "a"

\* The text has the phrase followed by the number n and no further digit.
Mentions(text, phrase, n) == Includes(text \o " ", phrase \o NumStr(n) \o " ")

MentionsExactLength(text) ==
    \E n \in 0..(MaxNumber + 1) :
        Mentions(text, "length ", n) \/ Mentions(text, "length of ", n)

\* C12: for every N up to MaxNumber, a query with "longer than N" and no
\* exact-length phrase is parsed with min_length = N + 1, and with a
\* max_length only if it also has a "shorter than" phrase; a query with
\* "shorter than N" and no exact-length phrase is parsed with
\* max_length = N - 1, and with a min_length only if it also has a "longer
\* than" phrase.  "strings longer than 10 characters" parses to exactly
\* {min_length: 11} and "strings shorter than 5 characters" to exactly
\* {max_length: 4}.
C12_LongerShorterBounds ==
    response.op = "filterByNaturalLanguage" =>
        LET text == toLowerCase(response.arg)
            f == response.filters
        IN /\ \A n \in 0..MaxNumber :
                /\ (Mentions(text, "longer than ", n) /\ ~ MentionsExactLength(text))
                      => /\ response.status = "ok"
                         /\ Has(f, "min_length") /\ f.min_length = n + 1
                         /\ Has(f, "max_length") => Includes(text, "shorter than ")
                /\ (Mentions(text, "shorter than ", n) /\ ~ MentionsExactLength(text))
                      => /\ response.status = "ok"
                         /\ Has(f, "max_length") /\ f.max_length = n - 1
                         /\ Has(f, "min_length") => Includes(text, "longer than ")
           /\ response.arg = "strings longer than 10 characters"
                 => f = [min_length |-> 11]
           /\ response.arg = "strings shorter than 5 characters"
                 => f = [max_length |-> 4]

\* Both examples of the claim were parsed, and a query with both phrases.
C12_Witness ==
    /\ response.op = "filterByNaturalLanguage"
    /\ response.status = "ok"
    /\ \/ response.arg = "strings longer than 10 characters"
             /\ response.filters = [min_length |-> 11]
       \/ response.arg = "strings shorter than 5 characters"
             /\ response.filters = [max_length |-> 4]

\* The filters set both length bounds to n.
ExactlyLength(f, n) ==
    /\ Has(f, "min_length") /\ f.min_length = n
    /\ Has(f, "max_length") /\ f.max_length = n

\* C13: a query with an exact-length phrase in either form, "length N" /
\* "length of N" or "N characters long", is parsed with min_length =
\* max_length = N, whatever a "longer than" or "shorter than" phrase of the
\* same query says.
C13_ExactLengthEitherForm ==
    response.op = "filterByNaturalLanguage" =>
        LET text == toLowerCase(response.arg)
        IN \A n \in 0..(MaxNumber + 1) :
              /\ (Mentions(text, "length ", n) \/ Mentions(text, "length of ", n))
                    => response.status = "ok" /\ ExactlyLength(response.filters, n)
              /\ Includes(" " \o text, " " \o NumStr(n) \o " characters long")
                    => response.status = "ok" /\ ExactlyLength(response.filters, n)

\* The parsed filters ask for a length above their own upper bound.
Conflicting(f) ==
    Has(f, "min_length") /\ Has(f, "max_length") /\ f.min_length > f.max_length

\* C14: when the filters parsed from the query text conflict (min_length
\* above max_length, as with "longer than 10" and "shorter than 5" in one
\* query), filterByNaturalLanguage fails with the unprocessable-entity error
\* (422) and returns no result.
C14_ConflictingFiltersRejected ==
    (response.op = "filterByNaturalLanguage"
     /\ Conflicting(ParsedFilters[response.arg]))
       => response.status = "UnprocessableEntityException"

RECURSIVE SumOver(_, _)
SumOver(f, keys) ==
    IF keys = {}
    THEN 0
    ELSE LET k == CHOOSE x \in keys : TRUE
         IN f[k] + SumOver(f, keys \ {k})

\* C15: for every stored string, surrogate pairs included, the counts of its
\* character_frequency_map add up to its length.
C15_FrequenciesSumToLength ==
    \A r \in store :
        SumOver(r.properties.character_frequency_map,
                DOMAIN r.properties.character_frequency_map)
          = r.properties.length

\* The text reads the same from both ends, code unit by code unit.
ReadsSameBothWays(text) ==
    \A i \in 1..Len(text) : CharAt(text, i) = CharAt(text, Len(text) + 1 - i)

\* The value with a space put in after its first i code units.
WithSpaceAt(value, i) ==
    SubSeq(value, 1, i) \o " " \o SubSeq(value, i + 1, Len(value))

C17_RecordsImmutable ==
    [][/\ \A r \in store :
             \/ r \in store'
             \/ /\ response'.op = "delete"
                /\ response'.arg = r.value
                /\ response'.status = "ok"
                /\ ~ Stored(store', r.value)
       /\ store' # store => response'.op \in {"create", "delete"}
       /\ (response' # response
            /\ response'.op \in {"findByValue", "findAll", "filterByNaturalLanguage"})
             => store' = store]_vars

\* A row created at time 0 is still stored with that time after the clock
\* moved on and a second create of the same value went through its save.
C17_Witness ==
    /\ now > 0
    /\ response.op = "create" /\ response.arg = "aba" /\ response.status = "ok"
    /\ response.data[1].created_at = NoDate
    /\ \E r \in store :
          r = Row(Sha256("aba"), "aba", computeProperties("aba"), 0)
    /\ Stored(store, "A a")

\* The code unit at position at of the text is a letter with no letter
\* right after it.
StandsAlone(text, at) ==
    /\ IsLowerLetter(CharAt(text, at))
    /\ at = Len(text) \/ ~ IsLowerLetter(CharAt(text, at + 1))

\* C18: a query without "vowel" is parsed with a contains_character only
\* when its "contain ... X" phrase names a single letter standing on its
\* own, and then with that letter; "strings containing numbers" is parsed
\* without a contains_character.
C18_ContainsNeedsSingleLetter ==
    (response.op = "filterByNaturalLanguage"
     /\ ~ Includes(toLowerCase(response.arg), "vowel"))
       => LET text == toLowerCase(response.arg)
              at == CaptureStart(text, ContainsPrefixes, "[a-z]")
          IN /\ Has(response.filters, "contains_character")
                  => /\ at # 0
                     /\ StandsAlone(text, at)
                     /\ response.filters.contains_character = CharAt(text, at)
             /\ response.arg = "strings containing numbers"
                  => ~ Has(response.filters, "contains_character")

\* C19: every field of the filters the interpreter produces satisfies the
\* constraints of FilterStringsDto: min_length, max_length and word_count
\* are integers of at least 0, contains_character is one character and
\* is_palindrome is a boolean, for every number in the query, 0 included.
C19_ParsedFiltersAreValid ==
    response.op = "filterByNaturalLanguage" =>
        LET f == response.filters
        IN /\ Has(f, "min_length") => f.min_length \in Nat
           /\ Has(f, "max_length") => f.max_length \in Nat
           /\ Has(f, "word_count") => f.word_count \in Nat
           /\ Has(f, "contains_character") => Len(f.contains_character) = 1
           /\ Has(f, "is_palindrome") => f.is_palindrome \in BOOLEAN

=============================================================================
